---- MODULE Spec2Model ----
(***************************************************************************)
(* Model of the asan-double-fetch runtime: the span algebra (span.rs), the *)
(* per-region access tracker (memory_tracking.rs) and the region registry  *)
(* with the double-fetch check (lib.rs).                                   *)
(***************************************************************************)
EXTENDS Integers, Sequences, FiniteSets, TLC

(* ------------------------------ bounds --------------------------------- *)

\* Address = usize, scaled down: the largest representable address.
UsizeMax == 4

\* Largest access length passed to check_access / track_access / remove_access.
MaxLen == 2

\* Largest number of entries the registry Vec holds at once.
MaxRegions == 2

\* Largest number of calls made on one tracker whose history is kept.
MaxOps == 2

Addrs == 0..UsizeMax
Lens == 0..MaxLen

\* The (addr, len) handed to watch_region: the adjacent regions [1,3), [3,4).
WatchArgs == {<<1, 2>>, <<3, 1>>}

Threads == {"t1", "t2"}

(* --------------------------- span.rs ----------------------------------- *)

saturating_add(a, b) == IF a > UsizeMax - b THEN UsizeMax ELSE a + b

saturating_sub(a, b) == IF a < b THEN 0 ELSE a - b

\* Span::new
Span(s, e) == [start |-> s, end |-> e]

\* Span::with_len
with_len(s, sz) == Span(s, saturating_add(s, sz))

\* Span::relation, classifying `other` against `self`, first match wins.
relation(self, other) ==
    IF other.start <= self.start /\ other.end >= self.end THEN "Engulf"
    ELSE IF other.end = self.start THEN "AdjacentStart"
    ELSE IF other.start = self.end THEN "AdjacentEnd"
    ELSE IF other.start < self.start /\ other.end > self.start THEN "OverlapStart"
    ELSE IF other.end > self.end /\ other.start < self.end THEN "OverlapEnd"
    ELSE IF other.start > self.start /\ other.end < self.end THEN "Break"
    ELSE "None"

(* ----------------------- memory_tracking.rs ---------------------------- *)

\* A MemoryTracker is a BTreeSet<Span> ordered by start only: a set of spans
\* with pairwise different starts.

\* BTreeSet::remove under Ord-by-start: drops the element with an equal start.
btree_remove(T, span) == {x \in T : x.start # span.start}

\* BTreeSet::insert under Ord-by-start: an element with an equal start is kept.
btree_insert(T, span) ==
    IF \E x \in T : x.start = span.start THEN T ELSE T \cup {span}

\* .rev().take_while(a < span.end) over the candidates, highest start first.
RECURSIVE take_while_rev(_, _)
take_while_rev(S, a) ==
    IF S = {} THEN <<>>
    ELSE LET m == CHOOSE x \in S : \A y \in S : y.start <= x.start
         IN  IF a < m.end THEN <<m>> \o take_while_rev(S \ {m}, a) ELSE <<>>

\* As lookup_range, were the scan to stop only past a span ending before a
\* (a <= span.end() for a < span.end()).
lookup_range_inclusive(T, a, sz) ==
    take_while_rev({x \in T : x.start >= 0 /\ x.start < saturating_add(a, sz)}, a - 1)

\* MemoryTracker::lookup_range: range [Span(0,0), Span(a+sz,0)) by start.
lookup_range(T, a, sz) ==
    take_while_rev({x \in T : x.start >= 0 /\ x.start < saturating_add(a, sz)}, a)

\* MemoryTracker::check: Ok, or Err(start of the first span of the probe).
check(T, a, sz) ==
    LET r == lookup_range(T, a, sz)
    IN  IF r = <<>> THEN [ok |-> TRUE, fault |-> 0]
        ELSE [ok |-> FALSE, fault |-> r[1].start]

\* The for loop of track_access over the probed spans; Option<Address> is a
\* sequence of length 0 or 1.
RECURSIVE track_loop(_, _, _, _)
track_loop(new, ov, i, st) ==
    IF i > Len(ov) \/ st.panic THEN st
    ELSE LET span == ov[i]
             removed == btree_remove(st.set, span)
             rel == relation(new, span)
         IN  track_loop(new, ov, i + 1,
               CASE rel = "Break" -> [st EXCEPT !.set = removed]
                 [] rel = "Engulf" ->
                      [st EXCEPT !.set = removed, !.start = <<span.start>>,
                                 !.end = <<span.end>>]
                 [] rel \in {"AdjacentStart", "OverlapStart"} ->
                      [st EXCEPT !.set = removed, !.start = <<span.start>>]
                 [] rel \in {"AdjacentEnd", "OverlapEnd"} ->
                      [st EXCEPT !.set = removed, !.end = <<span.end>>]
                 [] OTHER -> [st EXCEPT !.set = removed, !.panic = TRUE])

\* MemoryTracker::track_access: the tracker afterwards, or a panic.
track_access(T, a, sz) ==
    LET new == with_len(a, sz)
        overlapped == lookup_range(T, saturating_sub(a, 1), saturating_add(sz, 1))
        st == track_loop(new, overlapped, 1,
                         [set |-> T, start |-> <<>>, end |-> <<>>, panic |-> FALSE])
        new_start == IF st.start = <<>> THEN new.start ELSE st.start[1]
        new_end == IF st.end = <<>> THEN new.end ELSE st.end[1]
    IN  IF st.panic THEN [set |-> st.set, panic |-> TRUE]
        ELSE [set |-> btree_insert(st.set, Span(new_start, new_end)), panic |-> FALSE]

\* The for loop of remove_access over the probed spans.
RECURSIVE remove_loop(_, _, _, _)
remove_loop(clear, ov, i, st) ==
    IF i > Len(ov) \/ st.panic THEN st
    ELSE LET span == ov[i]
             removed == btree_remove(st.set, span)
             rel == relation(clear, span)
             a == Span(span.start, clear.start)
             b == Span(clear.end, span.end)
             with_a == IF a.end - a.start > 0 THEN btree_insert(removed, a) ELSE removed
             with_b == IF b.end - b.start > 0 THEN btree_insert(with_a, b) ELSE with_a
         IN  remove_loop(clear, ov, i + 1,
               CASE rel = "Break" -> [st EXCEPT !.set = removed]
                 [] rel = "OverlapEnd" ->
                      [st EXCEPT !.set = btree_insert(removed, Span(clear.end, span.end))]
                 [] rel = "OverlapStart" ->
                      [st EXCEPT !.set = btree_insert(removed, Span(span.start, clear.start))]
                 [] rel = "Engulf" -> [st EXCEPT !.set = with_b]
                 [] OTHER -> [st EXCEPT !.set = removed, !.panic = TRUE])

\* MemoryTracker::remove_access: the tracker afterwards, or a panic.
remove_access(T, a, sz) ==
    LET overlap == lookup_range(T, a, sz)
        clear == with_len(a, sz)
    IN  remove_loop(clear, overlap, 1, [set |-> T, panic |-> FALSE])

(* ------------------------------ state ---------------------------------- *)

VARIABLES
    initialized,  \* TRACKED_MEMORY_REGIONS (and SHMGET_IDS) OnceCell is set
    regions,      \* the registry Vec<(Span, Arc<Lock<MemoryTracker>>)>
    trackers,     \* the MemoryTracker behind each live Arc, by handle
    fatal,        \* "none", or the panic message that aborted the process
    last,         \* the most recent call: which one, and what it did
    hist,         \* history: per tracker and byte, the last access kind seen
    gone,         \* history: region spans unwatched and not watched again
    mt,           \* a MemoryTracker driven directly through its own methods
    ops,          \* history: the calls made on mt since it was empty
    pc,           \* per thread: position inside the call it is running
    call,         \* per thread: arguments of the call it is running
    handle,       \* per thread: the Arc clone returned by get_memory_tracker
    regLock,      \* holder of the registry lock, or "free"
    trkLock       \* per tracker: writer and readers of its RwLock

vars == <<initialized, regions, trackers, fatal, last, hist, gone, mt, ops,
          pc, call, handle, regLock, trkLock>>

threadVars == <<pc, call, handle, regLock, trkLock>>

NoTracker == 0

Handles == 1..(MaxRegions + Cardinality(Threads))

\* The bytes of [addr, addr+len) that exist in the address space.
Bytes(addr, len) == {b \in Addrs : addr <= b /\ b < addr + len}

SpanBytes(span) == {b \in Addrs : span.start <= b /\ b < span.end}

\* What a call did: class is its outcome, tracker the handle it resolved or
\* created, corrupted the live bytes it overwrote, ret what it returned (every
\* return of __asan_double_fetch_check is `false`).
Called(op, class, id, corrupted) ==
    [op |-> op, class |-> class, tracker |-> id, corrupted |-> corrupted,
     ret |-> CASE class = "fatal" -> "aborted"
               [] op = "check" -> "false"
               [] OTHER -> "unit"]

NoCall == Called("none", "none", NoTracker, {})

\* A thread's call in progress: its arguments and, once known, its outcome.
Args(op, addr, len, is_write) ==
    [op |-> op, addr |-> addr, len |-> len, is_write |-> is_write, class |-> "none"]

NoArgs == Args("none", 0, 0, FALSE)

\* An RwLock nobody holds.
Unlocked == [writer |-> "none", readers |-> {}]

\* Default::default() for Arc<Lock<MemoryTracker>>: a fresh, empty tracker.
fresh_handle == CHOOSE i \in Handles :
    /\ i \notin DOMAIN trackers
    /\ \A j \in Handles : j \notin DOMAIN trackers => i <= j

\* Vec::remove(idx)
vec_remove(v, idx) == [i \in 1..(Len(v) - 1) |-> IF i < idx THEN v[i] ELSE v[i + 1]]

\* iter().position(..) / find_map(..): index of the first entry whose region
\* has a non-None relation to the target span, 0 when there is none.
position(regs, target) ==
    IF \E i \in 1..Len(regs) : relation(target, regs[i].span) # "None"
    THEN CHOOSE i \in 1..Len(regs) :
           /\ relation(target, regs[i].span) # "None"
           /\ \A j \in 1..(i - 1) : relation(target, regs[j].span) = "None"
    ELSE 0

\* get_memory_tracker: the Arc clone of the first matching entry, or None.
get_memory_tracker(regs, addr, len) ==
    LET idx == position(regs, with_len(addr, len))
    IN  IF idx = 0 THEN NoTracker ELSE regs[idx].tracker

\* Dropping an Arc: the tracker is freed once neither the registry nor a
\* thread refers to it.
drop_unreferenced(trk, regs, hs) ==
    LET live == {regs[i].tracker : i \in 1..Len(regs)} \cup {hs[t] : t \in Threads}
    IN  [i \in DOMAIN trk \cap live |-> trk[i]]

(* ------------------- lib.rs, one call at a time ------------------------ *)

\* As __asan_shared_memory_region_init, were the cell overwritten by a later
\* call instead of OnceCell::set failing.
init_overwriting ==
    /\ fatal = "none"
    /\ initialized' = TRUE
    /\ regions' = <<>>
    /\ trackers' = <<>>
    /\ last' = Called("init", "done", NoTracker, {})
    /\ UNCHANGED <<fatal, mt, ops, threadVars>>

__asan_shared_memory_region_init ==
    /\ fatal = "none"
    /\ IF initialized
       THEN /\ fatal' = "failed to init shared memory region global"
            /\ last' = Called("init", "fatal", NoTracker, {})
            /\ UNCHANGED <<initialized, regions>>
       ELSE /\ initialized' = TRUE
            /\ regions' = <<>>
            /\ last' = Called("init", "done", NoTracker, {})
            /\ UNCHANGED fatal
    /\ UNCHANGED <<trackers, mt, ops, threadVars>>

__asan_watch_shared_memory_region(addr, len) ==
    /\ fatal = "none"
    /\ IF ~initialized
       THEN /\ fatal' = "tracked memory regions is not initialized"
            /\ last' = Called("watch", "fatal", NoTracker, {})
            /\ UNCHANGED <<regions, trackers>>
       ELSE /\ Len(regions) < MaxRegions
            /\ regions' = Append(regions, [span |-> with_len(addr, len),
                                           tracker |-> fresh_handle])
            /\ trackers' = (fresh_handle :> {}) @@ trackers
            /\ last' = Called("watch", "done", fresh_handle, {})
            /\ UNCHANGED fatal
    /\ UNCHANGED <<initialized, mt, ops, threadVars>>

__asan_unwatch_shared_memory_region(addr) ==
    /\ fatal = "none"
    /\ IF ~initialized
       THEN /\ fatal' = "tracked memory regions is not initialized"
            /\ last' = Called("unwatch", "fatal", NoTracker, {})
            /\ UNCHANGED <<regions, trackers>>
       ELSE LET idx == position(regions, with_len(addr, 1))
            IN  IF idx = 0
                THEN /\ last' = Called("unwatch", "noop", NoTracker, {})
                     /\ UNCHANGED <<regions, trackers, fatal>>
                ELSE /\ regions' = vec_remove(regions, idx)
                     /\ trackers' = drop_unreferenced(trackers, regions', handle)
                     /\ last' = Called("unwatch", "removed", regions[idx].tracker, {})
                     /\ UNCHANGED fatal
    /\ UNCHANGED <<initialized, mt, ops, threadVars>>

\* As __asan_double_fetch_check, were a read classified as a double-fetch to
\* fall through to track_access instead of returning.
check_tracking_double_fetch(addr, len, is_write) ==
    /\ fatal = "none"
    /\ IF ~initialized
       THEN /\ fatal' = "tracked memory regions is not initialized"
            /\ last' = Called("check", "fatal", NoTracker, {})
            /\ UNCHANGED trackers
       ELSE LET id == get_memory_tracker(regions, addr, len)
            IN  IF id = NoTracker
                THEN /\ last' = Called("check", "no_region", NoTracker, {})
                     /\ UNCHANGED <<trackers, fatal>>
                ELSE LET r == track_access(trackers[id], addr, len)
                         df == ~is_write /\ ~check(trackers[id], addr, len).ok
                     IN  /\ trackers' = [trackers EXCEPT ![id] = r.set]
                         /\ IF r.panic
                            THEN /\ fatal' = "error merging span"
                                 /\ last' = Called("check", "fatal", id, {})
                            ELSE /\ \E coin \in BOOLEAN :
                                      last' = Called("check",
                                                     IF df THEN "double_fetch" ELSE "tracked",
                                                     id,
                                                     IF df /\ coin THEN Bytes(addr, len) ELSE {})
                                 /\ UNCHANGED fatal
    /\ UNCHANGED <<initialized, regions, mt, ops, threadVars>>

__asan_double_fetch_check(addr, len, is_write) ==
    /\ fatal = "none"
    /\ IF ~initialized
       THEN /\ fatal' = "tracked memory regions is not initialized"
            /\ last' = Called("check", "fatal", NoTracker, {})
            /\ UNCHANGED trackers
       ELSE LET id == get_memory_tracker(regions, addr, len)
            IN  IF id = NoTracker
                THEN /\ last' = Called("check", "no_region", NoTracker, {})
                     /\ UNCHANGED <<trackers, fatal>>
                ELSE IF ~is_write /\ ~check(trackers[id], addr, len).ok
                THEN /\ \E coin \in BOOLEAN :
                          last' = Called("check", "double_fetch", id,
                                         IF coin THEN Bytes(addr, len) ELSE {})
                     /\ UNCHANGED <<trackers, fatal>>
                ELSE LET r == track_access(trackers[id], addr, len)
                     IN  /\ trackers' = [trackers EXCEPT ![id] = r.set]
                         /\ IF r.panic
                            THEN /\ fatal' = "error merging span"
                                 /\ last' = Called("check", "fatal", id, {})
                            ELSE /\ last' = Called("check", "tracked", id, {})
                                 /\ UNCHANGED fatal
    /\ UNCHANGED <<initialized, regions, mt, ops, threadVars>>

Init ==
    /\ initialized = FALSE
    /\ regions = <<>>
    /\ trackers = <<>>
    /\ fatal = "none"
    /\ last = NoCall
    /\ hist = <<>>
    /\ gone = {}
    /\ mt = {}
    /\ ops = <<>>
    /\ pc = [t \in Threads |-> "idle"]
    /\ call = [t \in Threads |-> NoArgs]
    /\ handle = [t \in Threads |-> NoTracker]
    /\ regLock = "free"
    /\ trkLock = [h \in Handles |-> Unlocked]

Next ==
    \/ __asan_shared_memory_region_init /\ UNCHANGED <<hist, gone>>
    \/ \E w \in WatchArgs :
         __asan_watch_shared_memory_region(w[1], w[2]) /\ UNCHANGED <<hist, gone>>
    \/ \E addr \in Addrs :
         __asan_unwatch_shared_memory_region(addr) /\ UNCHANGED <<hist, gone>>
    \/ \E addr \in Addrs, len \in Lens, is_write \in BOOLEAN :
         __asan_double_fetch_check(addr, len, is_write) /\ UNCHANGED <<hist, gone>>

Spec == Init /\ [][Next]_vars

\* The (addr, len) the threads pass to check_access: the byte at the regions'
\* common border.
FewChecks == {<<3, 1>>}

\* The calls around initialization, with accesses of single bytes.
NextInit ==
    \/ __asan_shared_memory_region_init /\ UNCHANGED <<hist, gone>>
    \/ \E w \in WatchArgs :
         __asan_watch_shared_memory_region(w[1], w[2]) /\ UNCHANGED <<hist, gone>>
    \/ \E addr \in Addrs :
         __asan_unwatch_shared_memory_region(addr) /\ UNCHANGED <<hist, gone>>
    \/ \E addr \in Addrs, is_write \in BOOLEAN :
         __asan_double_fetch_check(addr, 1, is_write) /\ UNCHANGED <<hist, gone>>

SpecInit == Init /\ [][NextInit]_vars

(* ------------- the same calls, with the access history kept ------------ *)

\* One region is watched at a time here: the history is that of accesses
\* within one watched region.

NoHist == [b \in Addrs |-> "n"]

\* History of __asan_watch_shared_memory_region: the new tracker has seen no
\* access.
RecordWatch ==
    hist' = [i \in DOMAIN trackers' |->
               IF i \in DOMAIN hist /\ i \in DOMAIN trackers THEN hist[i] ELSE NoHist]

\* History of __asan_unwatch_shared_memory_region: a freed tracker's history
\* goes with it.
RecordUnwatch == hist' = [i \in DOMAIN trackers' |-> hist[i]]

\* History of __asan_double_fetch_check: the bytes of [addr, addr+len) were
\* read ("r") or written ("w") in the region whose tracker the call resolved.
RecordCheck(addr, len, is_write) ==
    LET id == get_memory_tracker(regions, addr, len)
    IN  IF initialized /\ id # NoTracker
        THEN hist' = [hist EXCEPT ![id] =
                        [b \in Addrs |-> IF b \in Bytes(addr, len)
                                         THEN (IF is_write THEN "w" ELSE "r")
                                         ELSE @[b]]]
        ELSE UNCHANGED hist

NextHist ==
    \/ __asan_shared_memory_region_init /\ UNCHANGED <<hist, gone>>
    \/ \E w \in WatchArgs :
         /\ regions = <<>>
         /\ __asan_watch_shared_memory_region(w[1], w[2])
         /\ RecordWatch
         /\ UNCHANGED gone
    \/ \E addr \in Addrs :
         __asan_unwatch_shared_memory_region(addr) /\ RecordUnwatch /\ UNCHANGED gone
    \/ \E addr \in Addrs, len \in Lens, is_write \in BOOLEAN :
         /\ __asan_double_fetch_check(addr, len, is_write)
         /\ RecordCheck(addr, len, is_write)
         /\ UNCHANGED gone

SpecHist == Init /\ [][NextHist]_vars

(* -------------- the same calls, on one region at a time --------------- *)

NextFetch ==
    \/ __asan_shared_memory_region_init /\ UNCHANGED <<hist, gone>>
    \/ \E w \in WatchArgs :
         /\ regions = <<>>
         /\ __asan_watch_shared_memory_region(w[1], w[2])
         /\ UNCHANGED <<hist, gone>>
    \/ \E addr \in Addrs :
         __asan_unwatch_shared_memory_region(addr) /\ UNCHANGED <<hist, gone>>
    \/ \E addr \in Addrs, len \in Lens, is_write \in BOOLEAN :
         __asan_double_fetch_check(addr, len, is_write) /\ UNCHANGED <<hist, gone>>

SpecFetch == Init /\ [][NextFetch]_vars

(* ----------- the same calls, with the unwatched regions kept ----------- *)

Overlapping(r, s) == SpanBytes(r) \cap SpanBytes(s) # {}

NonOverlapping(regs) ==
    \A i, j \in 1..Len(regs) : i # j => ~Overlapping(regs[i].span, regs[j].span)

\* History of __asan_watch_shared_memory_region: a region overlapping the new
\* one is watched again.
GoneWatch(addr, len) ==
    IF initialized
    THEN gone' = {r \in gone : ~Overlapping(r, with_len(addr, len))}
    ELSE UNCHANGED gone

\* History of __asan_unwatch_shared_memory_region: the region containing addr
\* was asked to be unwatched (registries with overlapping regions excepted).
GoneUnwatch(addr) ==
    IF initialized /\ NonOverlapping(regions)
    THEN gone' = gone \cup {regions[i].span : i \in {j \in 1..Len(regions) :
                               /\ regions[j].span.start <= addr
                               /\ addr < regions[j].span.end}}
    ELSE UNCHANGED gone

NextGone ==
    \/ __asan_shared_memory_region_init /\ UNCHANGED <<hist, gone>>
    \/ \E w \in WatchArgs :
         /\ __asan_watch_shared_memory_region(w[1], w[2])
         /\ GoneWatch(w[1], w[2])
         /\ UNCHANGED hist
    \/ \E addr \in Addrs :
         __asan_unwatch_shared_memory_region(addr) /\ GoneUnwatch(addr) /\ UNCHANGED hist
    \/ \E addr \in Addrs, len \in Lens, is_write \in BOOLEAN :
         __asan_double_fetch_check(addr, len, is_write) /\ UNCHANGED <<hist, gone>>

SpecGone == Init /\ [][NextGone]_vars

(* ---------------- lib.rs, calls running on threads --------------------- *)

\* The addr the threads pass to unwatch_region.
ConcUnwatch == {3}

\* A thread enters __asan_watch_shared_memory_region.
Watch_call(t, addr, len) ==
    /\ fatal = "none"
    /\ pc[t] = "idle"
    /\ Len(regions) + Cardinality({u \in Threads : call[u].op = "watch"}) < MaxRegions
    /\ pc' = [pc EXCEPT ![t] = "watch_lock"]
    /\ call' = [call EXCEPT ![t] = Args("watch", addr, len, FALSE)]
    /\ UNCHANGED <<initialized, regions, trackers, fatal, last, hist, gone, mt, ops,
                   handle, regLock, trkLock>>

\* A thread enters __asan_unwatch_shared_memory_region.
Unwatch_call(t, addr) ==
    /\ fatal = "none"
    /\ pc[t] = "idle"
    /\ pc' = [pc EXCEPT ![t] = "unwatch_lock"]
    /\ call' = [call EXCEPT ![t] = Args("unwatch", addr, 1, FALSE)]
    /\ UNCHANGED <<initialized, regions, trackers, fatal, last, hist, gone, mt, ops,
                   handle, regLock, trkLock>>

\* A thread enters __asan_double_fetch_check and, in it, get_memory_tracker.
Check_call(t, addr, len, is_write) ==
    /\ fatal = "none"
    /\ pc[t] = "idle"
    /\ pc' = [pc EXCEPT ![t] = "lookup_lock"]
    /\ call' = [call EXCEPT ![t] = Args("check", addr, len, is_write)]
    /\ UNCHANGED <<initialized, regions, trackers, fatal, last, hist, gone, mt, ops,
                   handle, regLock, trkLock>>

\* RwLock::write() returns once nobody holds the lock, RwLock::read() once no
\* writer does.
can_write(lock) == lock = Unlocked

can_read(lock) == lock.writer = "none"

\* mem_regions.write(): blocks until nobody holds the registry lock.
registry_write_lock(t) ==
    /\ fatal = "none"
    /\ pc[t] \in {"watch_lock", "unwatch_lock", "lookup_lock"}
    /\ regLock = "free"
    /\ regLock' = t
    /\ pc' = [pc EXCEPT ![t] = CASE pc[t] = "watch_lock" -> "watch_push"
                                 [] pc[t] = "unwatch_lock" -> "unwatch_remove"
                                 [] OTHER -> "lookup_scan"]
    /\ UNCHANGED <<initialized, regions, trackers, fatal, last, hist, gone, mt, ops,
                   call, handle, trkLock>>

\* mem_regions.push(..) under the lock; the guard is dropped on return, and
\* the caller is free to make its next call.
Watch_push(t) ==
    /\ fatal = "none"
    /\ pc[t] = "watch_push"
    /\ regions' = Append(regions, [span |-> with_len(call[t].addr, call[t].len),
                                   tracker |-> fresh_handle])
    /\ trackers' = (fresh_handle :> {}) @@ trackers
    /\ regLock' = "free"
    /\ pc' = [pc EXCEPT ![t] = "idle"]
    /\ call' = [call EXCEPT ![t] = NoArgs]
    /\ UNCHANGED <<initialized, fatal, last, hist, gone, mt, ops, handle, trkLock>>

\* position(..) and mem_regions.remove(idx) under the lock; the guard is
\* dropped on return.
Unwatch_remove(t) ==
    /\ fatal = "none"
    /\ pc[t] = "unwatch_remove"
    /\ LET idx == position(regions, with_len(call[t].addr, 1))
       IN  IF idx = 0
           THEN UNCHANGED <<regions, trackers>>
           ELSE /\ regions' = vec_remove(regions, idx)
                /\ trackers' = drop_unreferenced(trackers, regions', handle)
    /\ regLock' = "free"
    /\ pc' = [pc EXCEPT ![t] = "idle"]
    /\ call' = [call EXCEPT ![t] = NoArgs]
    /\ UNCHANGED <<initialized, fatal, last, hist, gone, mt, ops, handle, trkLock>>

\* As Check_lookup, were the registry guard kept alive past the return of
\* get_memory_tracker.
Check_lookup_holding(t) ==
    /\ fatal = "none"
    /\ pc[t] = "lookup_scan"
    /\ LET id == get_memory_tracker(regions, call[t].addr, call[t].len)
       IN  /\ handle' = [handle EXCEPT ![t] = id]
           /\ IF id = NoTracker
              THEN /\ pc' = [pc EXCEPT ![t] = "returned"]
                   /\ call' = [call EXCEPT ![t].class = "no_region"]
                   /\ regLock' = "free"
              ELSE /\ pc' = [pc EXCEPT ![t] =
                               IF call[t].is_write THEN "tracker_write" ELSE "tracker_read"]
                   /\ UNCHANGED <<call, regLock>>
    /\ UNCHANGED <<initialized, regions, trackers, fatal, last, hist, gone, mt, ops, trkLock>>

\* The find_map of get_memory_tracker under the registry lock; the guard is
\* dropped when get_memory_tracker returns the cloned Arc, before
\* __asan_double_fetch_check goes on to the tracker's own lock.
Check_lookup(t) ==
    /\ fatal = "none"
    /\ pc[t] = "lookup_scan"
    /\ LET id == get_memory_tracker(regions, call[t].addr, call[t].len)
       IN  /\ handle' = [handle EXCEPT ![t] = id]
           /\ IF id = NoTracker
              THEN /\ pc' = [pc EXCEPT ![t] = "returned"]
                   /\ call' = [call EXCEPT ![t].class = "no_region"]
              ELSE /\ pc' = [pc EXCEPT ![t] =
                               IF call[t].is_write THEN "tracker_write" ELSE "tracker_read"]
                   /\ UNCHANGED call
    /\ regLock' = "free"
    /\ UNCHANGED <<initialized, regions, trackers, fatal, last, hist, gone, mt, ops, trkLock>>

\* memory_tracker.read(): blocks while a writer holds the tracker's lock.
tracker_read_lock(t) ==
    /\ fatal = "none"
    /\ pc[t] = "tracker_read"
    /\ can_read(trkLock[handle[t]])
    /\ trkLock' = [trkLock EXCEPT ![handle[t]].readers = @ \cup {t}]
    /\ pc' = [pc EXCEPT ![t] = "check"]
    /\ UNCHANGED <<initialized, regions, trackers, fatal, last, hist, gone, mt, ops,
                   call, handle, regLock>>

\* As Check_check, were the check and the track_access that follows it done
\* under one guard, as a pair.
Check_check_atomic(t) ==
    /\ fatal = "none"
    /\ pc[t] = "check"
    /\ trkLock' = [trkLock EXCEPT ![handle[t]].readers = @ \ {t}]
    /\ handle' = [handle EXCEPT ![t] = NoTracker]
    /\ pc' = [pc EXCEPT ![t] = "returned"]
    /\ IF ~check(trackers[handle[t]], call[t].addr, call[t].len).ok
       THEN /\ call' = [call EXCEPT ![t].class = "double_fetch"]
            /\ trackers' = drop_unreferenced(trackers, regions, handle')
            /\ UNCHANGED fatal
       ELSE LET r == track_access(trackers[handle[t]], call[t].addr, call[t].len)
            IN  /\ trackers' = drop_unreferenced([trackers EXCEPT ![handle[t]] = r.set],
                                                 regions, handle')
                /\ fatal' = IF r.panic THEN "error merging span" ELSE fatal
                /\ call' = [call EXCEPT ![t].class =
                                          IF r.panic THEN "fatal" ELSE "tracked"]
    /\ UNCHANGED <<initialized, regions, last, hist, gone, mt, ops, regLock>>

\* memory_tracker.check(addr, len) under the read guard: on Err the call is a
\* double-fetch, may overwrite the bytes and returns; on Ok the read guard is
\* dropped at the end of the block.
Check_check(t) ==
    /\ fatal = "none"
    /\ pc[t] = "check"
    /\ trkLock' = [trkLock EXCEPT ![handle[t]].readers = @ \ {t}]
    /\ IF ~check(trackers[handle[t]], call[t].addr, call[t].len).ok
       THEN /\ pc' = [pc EXCEPT ![t] = "returned"]
            /\ call' = [call EXCEPT ![t].class = "double_fetch"]
            /\ handle' = [handle EXCEPT ![t] = NoTracker]
            /\ trackers' = drop_unreferenced(trackers, regions, handle')
       ELSE /\ pc' = [pc EXCEPT ![t] = "tracker_write"]
            /\ UNCHANGED <<call, handle, trackers>>
    /\ UNCHANGED <<initialized, regions, fatal, last, hist, gone, mt, ops, regLock>>

\* memory_tracker.write(): blocks while anybody holds the tracker's lock.
tracker_write_lock(t) ==
    /\ fatal = "none"
    /\ pc[t] = "tracker_write"
    /\ can_write(trkLock[handle[t]])
    /\ trkLock' = [trkLock EXCEPT ![handle[t]].writer = t]
    /\ pc' = [pc EXCEPT ![t] = "track"]
    /\ UNCHANGED <<initialized, regions, trackers, fatal, last, hist, gone, mt, ops,
                   call, handle, regLock>>

\* memory_tracker.track_access(addr, len) under the write guard, then return.
Check_track(t) ==
    /\ fatal = "none"
    /\ pc[t] = "track"
    /\ LET r == track_access(trackers[handle[t]], call[t].addr, call[t].len)
       IN  /\ handle' = [handle EXCEPT ![t] = NoTracker]
           /\ trackers' = drop_unreferenced([trackers EXCEPT ![handle[t]] = r.set],
                                            regions, handle')
           /\ fatal' = IF r.panic THEN "error merging span" ELSE fatal
           /\ call' = [call EXCEPT ![t].class = IF r.panic THEN "fatal" ELSE "tracked"]
    /\ trkLock' = [trkLock EXCEPT ![handle[t]].writer = "none"]
    /\ pc' = [pc EXCEPT ![t] = "returned"]
    /\ UNCHANGED <<initialized, regions, last, hist, gone, mt, ops, regLock>>

\* __asan_double_fetch_check has returned: the caller takes the result and is
\* free to make its next call.
Return(t) ==
    /\ fatal = "none"
    /\ pc[t] = "returned"
    /\ pc' = [pc EXCEPT ![t] = "idle"]
    /\ call' = [call EXCEPT ![t] = NoArgs]
    /\ UNCHANGED <<initialized, regions, trackers, fatal, last, hist, gone, mt, ops,
                   handle, regLock, trkLock>>

\* A step of thread t inside a call it has entered.
Step(t) ==
    \/ registry_write_lock(t)
    \/ Watch_push(t)
    \/ Unwatch_remove(t)
    \/ Check_lookup(t)
    \/ tracker_read_lock(t)
    \/ Check_check(t)
    \/ tracker_write_lock(t)
    \/ Check_track(t)
    \/ Return(t)

\* The registry right after __asan_shared_memory_region_init().
InitConc ==
    /\ initialized = TRUE
    /\ regions = <<>>
    /\ trackers = <<>>
    /\ fatal = "none"
    /\ last = NoCall
    /\ hist = <<>>
    /\ gone = {}
    /\ mt = {}
    /\ ops = <<>>
    /\ pc = [t \in Threads |-> "idle"]
    /\ call = [t \in Threads |-> NoArgs]
    /\ handle = [t \in Threads |-> NoTracker]
    /\ regLock = "free"
    /\ trkLock = [h \in Handles |-> Unlocked]

NextConc ==
    \E t \in Threads :
        \/ \E w \in WatchArgs : Watch_call(t, w[1], w[2])
        \/ \E addr \in ConcUnwatch : Unwatch_call(t, addr)
        \/ \E c \in FewChecks, is_write \in BOOLEAN : Check_call(t, c[1], c[2], is_write)
        \/ Step(t)

SpecConc == InitConc /\ [][NextConc]_vars

\* The (addr, len) of the reads two threads race on: [3,4) and [2,4), which
\* overlap in the byte 3 and resolve to the tracker of the region [1,3).
RaceChecks == {<<3, 1>>, <<2, 2>>}

\* The threads' calls, the checks being reads of overlapping ranges.
NextRace ==
    \E t \in Threads :
        \/ \E w \in WatchArgs : Watch_call(t, w[1], w[2])
        \/ \E addr \in ConcUnwatch : Unwatch_call(t, addr)
        \/ \E c \in RaceChecks : Check_call(t, c[1], c[2], FALSE)
        \/ Step(t)

SpecRace == InitConc /\ [][NextRace]_vars

(* ------------- memory_tracking.rs, one tracker on its own -------------- *)

\* tracker.track_access(a, sz) on the tracker mt.
TrackAccess(a, sz) ==
    /\ fatal = "none"
    /\ LET r == track_access(mt, a, sz)
       IN  /\ mt' = r.set
           /\ IF r.panic
              THEN /\ fatal' = "error merging span"
                   /\ last' = Called("track_access", "fatal", NoTracker, {})
              ELSE /\ last' = Called("track_access", "done", NoTracker, {})
                   /\ UNCHANGED fatal
    /\ UNCHANGED <<initialized, regions, trackers, hist, gone, threadVars>>

\* tracker.remove_access(a, sz) on the tracker mt.
RemoveAccess(a, sz) ==
    /\ fatal = "none"
    /\ LET r == remove_access(mt, a, sz)
       IN  /\ mt' = r.set
           /\ IF r.panic
              THEN /\ fatal' = "error clearing span"
                   /\ last' = Called("remove_access", "fatal", NoTracker, {})
              ELSE /\ last' = Called("remove_access", "done", NoTracker, {})
                   /\ UNCHANGED fatal
    /\ UNCHANGED <<initialized, regions, trackers, hist, gone, threadVars>>

NextTracker ==
    \/ \E a \in Addrs, sz \in Lens : TrackAccess(a, sz) /\ UNCHANGED ops
    \/ \E a \in Addrs, sz \in Lens : RemoveAccess(a, sz) /\ UNCHANGED ops

SpecTracker == Init /\ [][NextTracker]_vars

(* ------------ the same tracker, with the calls made on it kept --------- *)

\* A call on the tracker as the history keeps it.
Op(name, a, sz) == [op |-> name, addr |-> a, len |-> sz]

\* History of track_access / remove_access: the call and its arguments.
RecordOp(name, a, sz) ==
    /\ Len(ops) < MaxOps
    /\ ops' = Append(ops, Op(name, a, sz))

NextOps ==
    \/ \E a \in Addrs, sz \in Lens :
         TrackAccess(a, sz) /\ RecordOp("track_access", a, sz)
    \/ \E a \in Addrs, sz \in Lens :
         RemoveAccess(a, sz) /\ RecordOp("remove_access", a, sz)

SpecOps == Init /\ [][NextOps]_vars

(* ------------------- claims on the registry calls ---------------------- *)

\* [addr, addr+len) does not run past the end of the address space.
ValidRange(addr, len) == addr + len <= UsizeMax

\* Some entry of the registry shares a byte with [addr, addr+len).
SharesByte(regs, addr, len) ==
    \E i \in 1..Len(regs) : Bytes(addr, len) \cap SpanBytes(regs[i].span) # {}

\* C1: after initialize(), every check_access call completes without a fatal
\* abort and returns false; the impossible-relation panic of track_access is
\* never reached.
C1_CheckNeverAborts ==
    (initialized /\ last.op = "check") =>
        (fatal = "none" /\ last.class # "fatal" /\ last.ret = "false")

\* C5: a check_access whose byte range shares no byte with any watched region
\* resolves no tracker, changes no tracker and corrupts no memory.
C5_UnwatchedNeverChecked ==
    [][\A addr \in Addrs, len \in Lens, is_write \in BOOLEAN :
         (/\ initialized
          /\ ValidRange(addr, len)
          /\ __asan_double_fetch_check(addr, len, is_write)
          /\ ~SharesByte(regions, addr, len))
         => (/\ last'.class = "no_region"
             /\ trackers' = trackers
             /\ last'.corrupted = {})]_vars

\* C6: lookup(addr, len) returns a tracker, that of the first matching entry
\* in registration order, whenever [addr, addr+len) shares a byte with a
\* watched region.
C6_LookupOnOverlap ==
    initialized =>
        \A addr \in Addrs, len \in Lens :
            (ValidRange(addr, len) /\ SharesByte(regions, addr, len)) =>
                /\ get_memory_tracker(regions, addr, len) # NoTracker
                /\ get_memory_tracker(regions, addr, len) =
                       regions[position(regions, with_len(addr, len))].tracker

\* C7: unwatch_region(addr) removes exactly the entry whose region contains
\* addr and leaves the others unchanged; when no region contains addr the
\* registry is unchanged.
C7_UnwatchExactlyContaining ==
    [][\A addr \in Addrs :
         (initialized /\ __asan_unwatch_shared_memory_region(addr))
         => LET containing == {i \in 1..Len(regions) :
                                  /\ regions[i].span.start <= addr
                                  /\ addr < regions[i].span.end}
            IN  IF containing = {} THEN regions' = regions
                ELSE \E i \in containing : regions' = vec_remove(regions, i)]_vars

\* C9: the registry is initialized exactly once: the first initialize() sets
\* it up empty, watch_region, unwatch_region and check_access before it are
\* fatal, and a second initialize() is fatal and leaves the entries unchanged.
C9_InitExactlyOnce ==
    [][/\ (~initialized /\ __asan_shared_memory_region_init)
            => (initialized' /\ regions' = <<>> /\ fatal' = "none")
       /\ (/\ ~initialized
           /\ \/ \E w \in WatchArgs : __asan_watch_shared_memory_region(w[1], w[2])
              \/ \E addr \in Addrs : __asan_unwatch_shared_memory_region(addr)
              \/ \E addr \in Addrs, len \in Lens, is_write \in BOOLEAN :
                   __asan_double_fetch_check(addr, len, is_write))
            => (fatal' # "none" /\ ~initialized' /\ regions' = regions)
       /\ (initialized /\ __asan_shared_memory_region_init)
            => (/\ fatal' # "none"
                /\ initialized'
                /\ regions' = regions
                /\ trackers' = trackers)]_vars

\* A second initialize() arrived after entries had been registered.
C9_Witness ==
    /\ last.op = "init"
    /\ last.class = "fatal"
    /\ fatal = "failed to init shared memory region global"
    /\ Len(regions) > 0

(* ------------------ claims on the access history ---------------------- *)

\* C3: a read covering a byte that an earlier read of the region covered, with
\* no write of that byte in between, is classified as a double-fetch; a read
\* disjoint from every earlier access to the region is not, and is tracked.
C3_RereadIsDoubleFetch ==
    [][\A addr \in Addrs, len \in Lens :
         LET id == get_memory_tracker(regions, addr, len)
         IN  (/\ initialized
              /\ ValidRange(addr, len)
              /\ id # NoTracker
              /\ __asan_double_fetch_check(addr, len, FALSE))
             => /\ (\E b \in Bytes(addr, len) : hist[id][b] = "r")
                      => last'.class = "double_fetch"
                /\ (\A b \in Bytes(addr, len) : hist[id][b] = "n")
                      => (/\ last'.class = "tracked"
                          /\ \A b \in Bytes(addr, len) :
                               \E x \in trackers'[id] : b \in SpanBytes(x))]_vars

\* C4: a read is classified as a double-fetch only when some byte of its range
\* was covered by an earlier read of the region with no write of that byte in
\* between; a read that follows a write of the same bytes is not one.
C4_DoubleFetchOnlyOnReread ==
    [][\A addr \in Addrs, len \in Lens :
         LET id == get_memory_tracker(regions, addr, len)
         IN  (/\ initialized
              /\ ValidRange(addr, len)
              /\ id # NoTracker
              /\ __asan_double_fetch_check(addr, len, FALSE)
              /\ last'.class = "double_fetch")
             => \E b \in Bytes(addr, len) : hist[id][b] = "r"]_vars

(* ------------------ claims on unwatched regions ------------------------ *)

\* [addr, addr+len) is a non-empty range lying inside the span.
Inside(addr, len, span) ==
    /\ Bytes(addr, len) # {}
    /\ span.start <= addr
    /\ addr + len <= span.end

\* C8: with pairwise non-overlapping regions, once unwatch_region(addr) was
\* called for an addr inside region R, no check_access inside R finds an owning
\* region until R is watched again; a region just watched starts with an empty
\* tracker, so its first read is not a double-fetch.
C8_UnwatchedStaysUnowned ==
    NonOverlapping(regions) =>
        /\ \A r \in gone : \A addr \in Addrs, len \in Lens :
             Inside(addr, len, r) => get_memory_tracker(regions, addr, len) = NoTracker
        /\ (last.op = "watch" /\ last.class = "done") =>
             /\ trackers[last.tracker] = {}
             /\ \A addr \in Addrs, len \in Lens :
                  LET id == get_memory_tracker(regions, addr, len)
                  IN  (Inside(addr, len, regions[Len(regions)].span) /\ id # NoTracker)
                      => check(trackers[id], addr, len).ok

(* ------------------- claims on one tracker ----------------------------- *)

\* C2: starting from an empty tracker, after any sequence of track_access and
\* remove_access calls no two stored spans overlap and no two stored spans
\* touch (no stored span ends where another starts).
C2_SpansDisjointNotTouching ==
    \A x, y \in mt :
        x # y => /\ SpanBytes(x) \cap SpanBytes(y) = {}
                 /\ x.end # y.start

(* ------------------- claims on the locking ----------------------------- *)

HoldsTrackerLock(t) ==
    \E h \in Handles : trkLock[h].writer = t \/ t \in trkLock[h].readers

\* Thread t, inside a call, is not blocked: the lock it is about to take, if
\* any, can be taken.
CanStep(t) ==
    CASE pc[t] = "idle" -> FALSE
      [] pc[t] \in {"watch_lock", "unwatch_lock", "lookup_lock"} -> regLock = "free"
      [] pc[t] = "tracker_read" -> can_read(trkLock[handle[t]])
      [] pc[t] = "tracker_write" -> can_write(trkLock[handle[t]])
      [] OTHER -> TRUE

\* CanStep is the enabling condition of Step.
CanStepIsEnabled ==
    fatal = "none" => \A t \in Threads : CanStep(t) <=> ENABLED Step(t)

\* C10: no thread holds the registry lock while acquiring or holding a
\* tracker's lock; so the calls never deadlock (while some call is in progress
\* some thread can step), and a thread waiting to mutate the registry waits
\* only for a holder that can itself step, whatever checks are in flight.
C10_RegistryLockNotNested ==
    fatal = "none" =>
        /\ \A t \in Threads :
             regLock = t => /\ ~HoldsTrackerLock(t)
                            /\ pc[t] \notin {"tracker_read", "tracker_write"}
        /\ (\E t \in Threads : pc[t] # "idle") => \E t \in Threads : CanStep(t)
        /\ \A t \in Threads :
             pc[t] \in {"watch_lock", "unwatch_lock"} =>
                 \/ regLock = "free"
                 \/ \E u \in Threads : regLock = u /\ CanStep(u)

\* A registry mutation holds the registry lock while a check on another
\* thread holds a tracker's lock.
C10_Witness ==
    \E t, u \in Threads :
        /\ t # u
        /\ HoldsTrackerLock(t)
        /\ regLock = u
        /\ pc[u] \in {"watch_push", "unwatch_remove"}

(* ------------- claims on the check / track_access race ---------------- *)

\* The bytes the spans of a tracker cover.
Covered(T) == UNION {SpanBytes(x) : x \in T}

\* No two spans of the tracker share a byte or touch.
DisjointNotTouching(T) ==
    \A x, y \in T :
        x # y => /\ SpanBytes(x) \cap SpanBytes(y) = {}
                 /\ x.end # y.start

\* C11: the read-path check and the track_access after it are not atomic as a
\* pair. A check that finds no overlap only releases the read guard: it tracks
\* nothing, and the thread goes on to wait for the write lock. The
\* track_access then runs without a second check: a read that found no
\* overlap is classified as tracked and its range marked, even when another
\* read has tracked an overlapping range in between, and the tracker it leaves
\* has no two spans that overlap or touch.
C11_CheckThenTrackNotAtomic ==
    [][\A t \in Threads :
         /\ (/\ pc[t] = "check"
             /\ pc'[t] # "check"
             /\ check(trackers[handle[t]], call[t].addr, call[t].len).ok)
            => /\ pc'[t] = "tracker_write"
               /\ trackers' = trackers
               /\ t \notin trkLock'[handle[t]].readers
               /\ trkLock'[handle[t]].writer # t
         /\ (pc[t] = "track" /\ pc'[t] # "track" /\ fatal' = "none")
            => /\ pc'[t] = "returned"
               /\ call'[t].class = "tracked"
               /\ handle[t] \in DOMAIN trackers' =>
                    /\ Bytes(call[t].addr, call[t].len) \subseteq
                           Covered(trackers'[handle[t]])
                    /\ DisjointNotTouching(trackers'[handle[t]])]_vars

\* Two reads of overlapping ranges were both let through by the check: one has
\* marked its range and returned, not classified as a double-fetch, and the
\* other now holds the write lock to mark its own range in the same tracker.
C11_Witness ==
    \E t, u \in Threads :
        /\ t # u
        /\ call[t].op = "check" /\ ~call[t].is_write
        /\ call[u].op = "check" /\ ~call[u].is_write
        /\ Bytes(call[t].addr, call[t].len) \cap Bytes(call[u].addr, call[u].len) # {}
        /\ pc[u] = "returned"
        /\ call[u].class = "tracked"
        /\ pc[t] = "track"
        /\ Bytes(call[u].addr, call[u].len) \subseteq Covered(trackers[handle[t]])

(* ------------- claims on the calls made on one tracker ---------------- *)

\* The span a recorded call was made with.
OpSpan(o) == with_len(o.addr, o.len)

\* A recorded call on a range of at least one byte that fits the address space.
ProperOp(o) == o.len > 0 /\ ValidRange(o.addr, o.len)

\* C12: for two spans A and B with a non-None relation (in either direction),
\* tracking A then B on an empty tracker leaves the same stored span set as
\* tracking B then A.
C12_TrackingCommutes ==
    (/\ Len(ops) = 2
     /\ ops[1].op = "track_access" /\ ProperOp(ops[1])
     /\ ops[2].op = "track_access" /\ ProperOp(ops[2])
     /\ relation(OpSpan(ops[1]), OpSpan(ops[2])) # "None"
     /\ relation(OpSpan(ops[2]), OpSpan(ops[1])) # "None")
    => LET b_first == track_access({}, ops[2].addr, ops[2].len)
           then_a == track_access(b_first.set, ops[1].addr, ops[1].len)
       IN  /\ fatal = "none"
           /\ ~b_first.panic
           /\ ~then_a.panic
           /\ mt = then_a.set

\* C13: round trip: for every span (addr, len), len = 0 included,
\* track_access(addr, len) followed by remove_access(addr, len) on an empty
\* tracker leaves the tracker empty.
C13_TrackRemoveRoundTrip ==
    (/\ Len(ops) = 2
     /\ ops[1].op = "track_access"
     /\ ops[2] = Op("remove_access", ops[1].addr, ops[1].len)
     /\ ValidRange(ops[1].addr, ops[1].len))
    => (fatal = "none" /\ mt = {})

\* The stored spans sharing a byte with [a, a+sz).
Overlapped(T, a, sz) == {x \in T : SpanBytes(x) \cap Bytes(a, sz) # {}}

\* C14: in every tracker state reached from empty by track_access and
\* remove_access, and for every query (addr, len), check succeeds when the
\* query shares no byte with any stored span, and otherwise fails with the
\* start of the overlapping stored span that has the highest start.
C14_CheckReportsLastOverlap ==
    fatal = "none" =>
        \A a \in Addrs, sz \in Lens :
            ValidRange(a, sz) =>
                LET hit == Overlapped(mt, a, sz)
                    r == check(mt, a, sz)
                IN  IF hit = {} THEN r.ok
                    ELSE /\ ~r.ok
                         /\ \E x \in hit : x.start = r.fault
                         /\ \A x \in hit : x.start <= r.fault

\* The spans of two recorded calls share no byte and do not touch.
Apart(o, p) ==
    /\ SpanBytes(OpSpan(o)) \cap SpanBytes(OpSpan(p)) = {}
    /\ OpSpan(o).end # OpSpan(p).start
    /\ OpSpan(p).end # OpSpan(o).start

\* The history is n track_access calls, on an empty tracker, of pairwise
\* disjoint, non-adjacent spans of at least one byte each.
DisjointInserts ==
    /\ \A i \in 1..Len(ops) : ops[i].op = "track_access" /\ ProperOp(ops[i])
    /\ \A i, j \in 1..Len(ops) : i # j => Apart(ops[i], ops[j])

\* C15: when n pairwise disjoint, non-adjacent spans are inserted into an
\* empty tracker by track_access, in any order, the tracker holds exactly n
\* spans, each inserted span stored unchanged.
C15_DisjointInsertsCounted ==
    DisjointInserts =>
        /\ fatal = "none"
        /\ Cardinality(mt) = Len(ops)
        /\ mt = {OpSpan(ops[i]) : i \in 1..Len(ops)}

\* Two disjoint, non-adjacent spans were inserted, the higher one first.
C15_Witness ==
    /\ Len(ops) = 2
    /\ DisjointInserts
    /\ ops[2].addr < ops[1].addr
    /\ Cardinality(mt) = 2

(* ---------------- claims on one call on one tracker -------------------- *)

\* Every stored span has at least one byte.
NonEmptySpans(T) == \A x \in T : x.start < x.end

\* The stored spans that [a, a+sz) overlaps or touches.
Near(T, a, sz) ==
    {x \in T : \/ SpanBytes(x) \cap Bytes(a, sz) # {}
               \/ x.end = a
               \/ x.start = a + sz}

\* C16: from every tracker state reached from empty and for every (addr, len),
\* track_access(addr, len) completes, and afterwards the covered bytes are
\* those covered before together with [addr, addr+len): the new range and
\* every stored span it overlapped or touched are replaced by one merged span
\* (from the minimum start to the maximum end), the other spans kept. Stated
\* for calls of at least one byte on trackers without empty spans.
C16_TrackAccessMerges ==
    [][\A a \in Addrs, sz \in Lens :
         (ValidRange(a, sz) /\ sz > 0 /\ NonEmptySpans(mt) /\ TrackAccess(a, sz))
         => LET near == Near(mt, a, sz)
                lo == CHOOSE s \in {a} \cup {x.start : x \in near} :
                        \A q \in {a} \cup {x.start : x \in near} : s <= q
                hi == CHOOSE e \in {a + sz} \cup {x.end : x \in near} :
                        \A q \in {a + sz} \cup {x.end : x \in near} : q <= e
            IN  /\ fatal' = "none"
                /\ Covered(mt') = Covered(mt) \cup Bytes(a, sz)
                /\ mt' = (mt \ near) \cup {Span(lo, hi)}]_vars

\* C17: from every tracker state reached from empty and for every (addr, len),
\* remove_access(addr, len) completes, and afterwards the covered bytes are
\* those covered before minus [addr, addr+len): a stored span strictly
\* containing the cleared range is split in two, one overlapping an edge is
\* trimmed, one fully covered by it (sharing its start or end included) is
\* dropped, and the spans not overlapping it are unchanged. Stated for calls
\* of at least one byte on trackers without empty spans.
C17_RemoveAccessClears ==
    [][\A a \in Addrs, sz \in Lens :
         (ValidRange(a, sz) /\ sz > 0 /\ NonEmptySpans(mt) /\ RemoveAccess(a, sz))
         => LET hit == Overlapped(mt, a, sz)
                left == {Span(x.start, a) : x \in {y \in hit : y.start < a}}
                right == {Span(a + sz, x.end) : x \in {y \in hit : a + sz < y.end}}
            IN  /\ fatal' = "none"
                /\ Covered(mt') = Covered(mt) \ Bytes(a, sz)
                /\ mt' = (mt \ hit) \cup left \cup right]_vars

(* ------------------------ claims on spans ------------------------------ *)

\* Two spans share a byte, or one ends where the other starts.
Touching(a, b) ==
    \/ SpanBytes(a) \cap SpanBytes(b) # {}
    \/ a.end = b.start
    \/ b.end = a.start

\* C18: Span::relation returns None exactly when the two spans are disjoint
\* and not touching: for the span a of a call and a stored span b (each with
\* start <= end), a.relation(b) is not None when they share a byte or touch,
\* and a.relation(b) and b.relation(a) are both None when they do neither.
\* Stated for spans of at least one byte.
C18_RelationNoneIffApart ==
    fatal = "none" =>
        \A addr \in Addrs, len \in Lens \ {0} : \A b \in mt :
            LET a == with_len(addr, len)
            IN  IF a.start = a.end \/ b.start = b.end THEN TRUE
                ELSE IF Touching(a, b)
                THEN relation(a, b) # "None"
                ELSE relation(a, b) = "None" /\ relation(b, a) = "None"

(* ------------------ claims on the registry lock ------------------------ *)

\* C19: the registry lock is taken shared by lookup and exclusive by
\* watch_region and unwatch_region: a lookup waits for the lock only while a
\* watch or unwatch holds it (lookups scan the registry together), and while a
\* watch or unwatch holds it no other thread scans or mutates the registry.
C19_LookupsShareRegistry ==
    \A t \in Threads :
        /\ (pc[t] = "lookup_lock" /\ regLock # "free")
              => pc[regLock] \in {"watch_push", "unwatch_remove"}
        /\ pc[t] \in {"watch_push", "unwatch_remove"}
              => /\ regLock = t
                 /\ \A u \in Threads \ {t} :
                      pc[u] \notin {"lookup_scan", "watch_push", "unwatch_remove"}

(* ------------- claims on a read classified as a double-fetch ---------- *)

\* C20: a read check_access classified as a double-fetch leaves every tracker
\* and the registry unchanged (its range is not added to the tracked set, not
\* even the part of it that was not tracked before) and does not abort; all it
\* may modify are the live bytes of [addr, addr+len).
C20_DoubleFetchLeavesTracker ==
    [][\A addr \in Addrs, len \in Lens :
         (/\ last'.class = "double_fetch"
          /\ __asan_double_fetch_check(addr, len, FALSE))
         => /\ trackers' = trackers
            /\ regions' = regions
            /\ initialized' = initialized
            /\ fatal' = "none"
            /\ last'.corrupted \subseteq Bytes(addr, len)]_vars

\* A read was classified as a double-fetch and overwrote its bytes, some of
\* which the tracker it resolved still does not cover.
C20_Witness ==
    /\ last.op = "check"
    /\ last.class = "double_fetch"
    /\ last.corrupted \cap Covered(trackers[last.tracker]) # {}
    /\ last.corrupted \ Covered(trackers[last.tracker]) # {}

(* ------------------- claims on the stored spans ------------------------ *)

\* C21: starting from an empty tracker, after any sequence of track_access and
\* remove_access calls with arbitrary (addr, len), len = 0 included, every
\* stored span is non-empty (start < end): empty spans are never inserted and
\* the empty halves of a split are dropped.
C21_StoredSpansNonEmpty ==
    fatal = "none" => \A x \in mt : x.start < x.end

====
